---- MODULE Spec2Model ----
(***************************************************************************)
(* A model of the url-hash crate (src/src/lib.rs): the three hash value    *)
(* types UrlHash, UrlShortHash and UrlVeryShortHash, the construction of a *)
(* UrlHash from a parsed Url, the truncations, the prefix tests and the    *)
(* Display renderings.                                                     *)
(*                                                                         *)
(* Representation.  TLC's integers are 32 bits wide, so a u64 is kept as   *)
(* four 16-bit limbs, least significant first:                             *)
(*     <<l0, l1, l2, l3>>  stands for  l0 + l1*2^16 + l2*2^32 + l3*2^48.   *)
(* The 32-bit words of SHA-256 are two such limbs.  Text is a sequence of  *)
(* one-character strings; a byte is an integer in 0..255.                  *)
(***************************************************************************)
EXTENDS Integers, Sequences, FiniteSets, TLC

VARIABLES
    test,        \* the program that runs: "repeatedly", "prefixes" or "values"
    class,       \* the entry of UrlClasses the tests run on
    pc,          \* the program's position
    input,       \* the text last given to Url::parse
    url,         \* the Url last parsed
    first,       \* the input, Url and UrlHash of the first UrlHash::from
    hash,        \* the UrlHash last built
    calls,       \* the calls of UrlHash::from so far
    short,       \* hash.short()
    very_short,  \* hash.very_short()
    last,        \* the last prefix test, truncation of a short hash or rendering
    digest,      \* the digest handed to the value-level operations
    panicked     \* an assertion or an unwrap failed

(***************************************************************************)
(* Machine arithmetic on limb sequences.                                   *)
(***************************************************************************)
\* 2^n for n in 0..16
Pow2Table ==
    <<1, 2, 4, 8, 16, 32, 64, 128, 256, 512, 1024, 2048, 4096, 8192,
      16384, 32768, 65536>>

Pow2(n) == Pow2Table[n + 1]

\* a ^ b and a & b on 4-bit values, tabulated: row a + 1, column b + 1
XorNibble ==
    <<
       <<0, 1, 2, 3, 4, 5, 6, 7, 8, 9, 10, 11, 12, 13, 14, 15>>,
       <<1, 0, 3, 2, 5, 4, 7, 6, 9, 8, 11, 10, 13, 12, 15, 14>>,
       <<2, 3, 0, 1, 6, 7, 4, 5, 10, 11, 8, 9, 14, 15, 12, 13>>,
       <<3, 2, 1, 0, 7, 6, 5, 4, 11, 10, 9, 8, 15, 14, 13, 12>>,
       <<4, 5, 6, 7, 0, 1, 2, 3, 12, 13, 14, 15, 8, 9, 10, 11>>,
       <<5, 4, 7, 6, 1, 0, 3, 2, 13, 12, 15, 14, 9, 8, 11, 10>>,
       <<6, 7, 4, 5, 2, 3, 0, 1, 14, 15, 12, 13, 10, 11, 8, 9>>,
       <<7, 6, 5, 4, 3, 2, 1, 0, 15, 14, 13, 12, 11, 10, 9, 8>>,
       <<8, 9, 10, 11, 12, 13, 14, 15, 0, 1, 2, 3, 4, 5, 6, 7>>,
       <<9, 8, 11, 10, 13, 12, 15, 14, 1, 0, 3, 2, 5, 4, 7, 6>>,
       <<10, 11, 8, 9, 14, 15, 12, 13, 2, 3, 0, 1, 6, 7, 4, 5>>,
       <<11, 10, 9, 8, 15, 14, 13, 12, 3, 2, 1, 0, 7, 6, 5, 4>>,
       <<12, 13, 14, 15, 8, 9, 10, 11, 4, 5, 6, 7, 0, 1, 2, 3>>,
       <<13, 12, 15, 14, 9, 8, 11, 10, 5, 4, 7, 6, 1, 0, 3, 2>>,
       <<14, 15, 12, 13, 10, 11, 8, 9, 6, 7, 4, 5, 2, 3, 0, 1>>,
       <<15, 14, 13, 12, 11, 10, 9, 8, 7, 6, 5, 4, 3, 2, 1, 0>>
    >>

AndNibble ==
    <<
       <<0, 0, 0, 0, 0, 0, 0, 0, 0, 0, 0, 0, 0, 0, 0, 0>>,
       <<0, 1, 0, 1, 0, 1, 0, 1, 0, 1, 0, 1, 0, 1, 0, 1>>,
       <<0, 0, 2, 2, 0, 0, 2, 2, 0, 0, 2, 2, 0, 0, 2, 2>>,
       <<0, 1, 2, 3, 0, 1, 2, 3, 0, 1, 2, 3, 0, 1, 2, 3>>,
       <<0, 0, 0, 0, 4, 4, 4, 4, 0, 0, 0, 0, 4, 4, 4, 4>>,
       <<0, 1, 0, 1, 4, 5, 4, 5, 0, 1, 0, 1, 4, 5, 4, 5>>,
       <<0, 0, 2, 2, 4, 4, 6, 6, 0, 0, 2, 2, 4, 4, 6, 6>>,
       <<0, 1, 2, 3, 4, 5, 6, 7, 0, 1, 2, 3, 4, 5, 6, 7>>,
       <<0, 0, 0, 0, 0, 0, 0, 0, 8, 8, 8, 8, 8, 8, 8, 8>>,
       <<0, 1, 0, 1, 0, 1, 0, 1, 8, 9, 8, 9, 8, 9, 8, 9>>,
       <<0, 0, 2, 2, 0, 0, 2, 2, 8, 8, 10, 10, 8, 8, 10, 10>>,
       <<0, 1, 2, 3, 0, 1, 2, 3, 8, 9, 10, 11, 8, 9, 10, 11>>,
       <<0, 0, 0, 0, 4, 4, 4, 4, 8, 8, 8, 8, 12, 12, 12, 12>>,
       <<0, 1, 0, 1, 4, 5, 4, 5, 8, 9, 8, 9, 12, 13, 12, 13>>,
       <<0, 0, 2, 2, 4, 4, 6, 6, 8, 8, 10, 10, 12, 12, 14, 14>>,
       <<0, 1, 2, 3, 4, 5, 6, 7, 8, 9, 10, 11, 12, 13, 14, 15>>
    >>

\* a ^ b on 16-bit limbs, nibble by nibble
BitXor(a, b) ==
      XorNibble[(a % 16) + 1][(b % 16) + 1]
    + XorNibble[((a \div 16) % 16) + 1][((b \div 16) % 16) + 1] * 16
    + XorNibble[((a \div 256) % 16) + 1][((b \div 256) % 16) + 1] * 256
    + XorNibble[(a \div 4096) + 1][(b \div 4096) + 1] * 4096

\* a & b on 16-bit limbs, nibble by nibble
BitAnd(a, b) ==
      AndNibble[(a % 16) + 1][(b % 16) + 1]
    + AndNibble[((a \div 16) % 16) + 1][((b \div 16) % 16) + 1] * 16
    + AndNibble[((a \div 256) % 16) + 1][((b \div 256) % 16) + 1] * 256
    + AndNibble[(a \div 4096) + 1][(b \div 4096) + 1] * 4096

\* the word operations, on words of 2 limbs (u32) or 4 limbs (u64)
XorW(a, b) ==
    IF Len(a) = 2
    THEN <<BitXor(a[1], b[1]), BitXor(a[2], b[2])>>
    ELSE <<BitXor(a[1], b[1]), BitXor(a[2], b[2]),
           BitXor(a[3], b[3]), BitXor(a[4], b[4])>>

AndW(a, b) ==
    IF Len(a) = 2
    THEN <<BitAnd(a[1], b[1]), BitAnd(a[2], b[2])>>
    ELSE <<BitAnd(a[1], b[1]), BitAnd(a[2], b[2]),
           BitAnd(a[3], b[3]), BitAnd(a[4], b[4])>>

NotW(a) ==
    IF Len(a) = 2
    THEN <<65535 - a[1], 65535 - a[2]>>
    ELSE <<65535 - a[1], 65535 - a[2], 65535 - a[3], 65535 - a[4]>>

\* wrapping_add
AddW(a, b) ==
    LET s1 == a[1] + b[1]
        s2 == a[2] + b[2] + (s1 \div 65536)
    IN  IF Len(a) = 2
        THEN <<s1 % 65536, s2 % 65536>>
        ELSE LET s3 == a[3] + b[3] + (s2 \div 65536)
                 s4 == a[4] + b[4] + (s3 \div 65536)
             IN  <<s1 % 65536, s2 % 65536, s3 % 65536, s4 % 65536>>

\* limb i (0-based) of w, indices taken modulo the word's width
LimbRot(w, i) == w[(i % Len(w)) + 1]
\* limb i (0-based) of w, zero beyond the word's width
LimbShift(w, i) == IF i < Len(w) THEN w[i + 1] ELSE 0

RotLimb(w, q, s, i) ==
    (LimbRot(w, i + q) \div Pow2(s)) + (LimbRot(w, i + q + 1) % Pow2(s)) * Pow2(16 - s)

\* rotate_right(r)
RotR(w, r) ==
    LET q == r \div 16
        s == r % 16
    IN  IF Len(w) = 2
        THEN <<RotLimb(w, q, s, 0), RotLimb(w, q, s, 1)>>
        ELSE <<RotLimb(w, q, s, 0), RotLimb(w, q, s, 1),
               RotLimb(w, q, s, 2), RotLimb(w, q, s, 3)>>

ShLimb(w, q, s, i) ==
    (LimbShift(w, i + q) \div Pow2(s)) + (LimbShift(w, i + q + 1) % Pow2(s)) * Pow2(16 - s)

\* logical shift right by r
ShR(w, r) ==
    LET q == r \div 16
        s == r % 16
    IN  IF Len(w) = 2
        THEN <<ShLimb(w, q, s, 0), ShLimb(w, q, s, 1)>>
        ELSE <<ShLimb(w, q, s, 0), ShLimb(w, q, s, 1),
               ShLimb(w, q, s, 2), ShLimb(w, q, s, 3)>>

(***************************************************************************)
(* The SHA-2 family (FIPS 180-4) as ring::digest computes it.  An          *)
(* algorithm is a record: its word width in limbs, its round constants,    *)
(* its initial state, its rotation amounts and its output length.          *)
(***************************************************************************)
K256 ==
    <<
       <<12184, 17034>>, <<17553, 28983>>, <<64463, 46528>>, <<56229, 59829>>,
       <<49755, 14678>>, <<4593, 23025>>, <<33444, 37439>>, <<24277, 43804>>,
       <<43672, 55303>>, <<23297, 4739>>, <<34238, 9265>>, <<32195, 21772>>,
       <<23924, 29374>>, <<45566, 32990>>, <<1703, 39900>>, <<61812, 49563>>,
       <<27073, 58523>>, <<18310, 61374>>, <<40390, 4033>>, <<41420, 9228>>,
       <<11375, 11753>>, <<33962, 19060>>, <<43484, 23728>>, <<35034, 30457>>,
       <<20818, 38974>>, <<50797, 43057>>, <<10184, 45059>>, <<32711, 48985>>,
       <<3059, 50912>>, <<37191, 54695>>, <<25425, 1738>>, <<10599, 5161>>,
       <<2693, 10167>>, <<8504, 11803>>, <<28156, 19756>>, <<3347, 21304>>,
       <<29524, 25866>>, <<2747, 30314>>, <<51502, 33218>>, <<11397, 37490>>,
       <<59553, 41663>>, <<26187, 43034>>, <<35696, 49739>>, <<20899, 51052>>,
       <<59417, 53650>>, <<1572, 54937>>, <<13701, 62478>>, <<41072, 4202>>,
       <<49430, 6564>>, <<27656, 7735>>, <<30540, 10056>>, <<48309, 13488>>,
       <<3251, 14620>>, <<43594, 20184>>, <<51791, 23452>>, <<28659, 26670>>,
       <<33518, 29839>>, <<25455, 30885>>, <<30740, 33992>>, <<520, 36039>>,
       <<65530, 37054>>, <<27883, 42064>>, <<41975, 48889>>, <<30962, 50801>>
    >>

K512 ==
    <<
       <<44578, 55080, 12184, 17034>>, <<26061, 9199, 17553, 28983>>,
       <<15151, 60493, 64463, 46528>>, <<56252, 33161, 56229, 59829>>,
       <<46392, 62280, 49755, 14678>>, <<53273, 46597, 4593, 23025>>,
       <<20379, 44825, 33444, 37439>>, <<33048, 55917, 24277, 43804>>,
       <<578, 41731, 43672, 55303>>, <<28606, 17776, 23297, 4739>>,
       <<45708, 20196, 34238, 9265>>, <<46306, 54783, 32195, 21772>>,
       <<35183, 62075, 23924, 29374>>, <<38577, 15126, 45566, 32990>>,
       <<4661, 9671, 1703, 39900>>, <<9876, 53097, 61812, 49563>>,
       <<19154, 40689, 27073, 58523>>, <<9699, 14415, 18310, 61374>>,
       <<54709, 35724, 40390, 4033>>, <<40037, 30636, 41420, 9228>>,
       <<629, 22827, 11375, 11753>>, <<58499, 28326, 33962, 19060>>,
       <<64468, 48449, 43484, 23728>>, <<21429, 33553, 35034, 30457>>,
       <<57259, 61030, 20818, 38974>>, <<12816, 11700, 50797, 43057>>,
       <<8511, 39163, 10184, 45059>>, <<3812, 48879, 32711, 48985>>,
       <<36802, 15784, 3059, 50912>>, <<42789, 37642, 37191, 54695>>,
       <<33391, 57347, 25425, 1738>>, <<28272, 2574, 10599, 5161>>,
       <<12284, 18130, 2693, 10167>>, <<51494, 23590, 8504, 11803>>,
       <<10989, 23236, 28156, 19756>>, <<46047, 40341, 3347, 21304>>,
       <<25566, 35759, 29524, 25866>>, <<45736, 15479, 2747, 30314>>,
       <<44774, 18413, 51502, 33218>>, <<13627, 5250, 11397, 37490>>,
       <<868, 19697, 59553, 41663>>, <<12289, 48194, 26187, 43034>>,
       <<38801, 53496, 35696, 49739>>, <<48688, 1620, 20899, 51052>>,
       <<21016, 55023, 59417, 53650>>, <<43280, 21861, 1572, 54937>>,
       <<8234, 22385, 13701, 62478>>, <<53688, 12987, 41072, 4202>>,
       <<53448, 47314, 49430, 6564>>, <<43859, 20801, 27656, 7735>>,
       <<60313, 57230, 30540, 10056>>, <<18600, 57755, 48309, 13488>>,
       <<23139, 50633, 3251, 14620>>, <<35531, 58177, 43594, 20184>>,
       <<58227, 30563, 51791, 23452>>, <<47267, 54962, 28659, 26670>>,
       <<45820, 24047, 33518, 29839>>, <<12128, 17175, 25455, 30885>>,
       <<43890, 41456, 30740, 33992>>, <<14828, 6756, 520, 36039>>,
       <<7720, 9059, 65530, 37054>>, <<48617, 56962, 27883, 42064>>,
       <<30997, 45766, 41975, 48889>>, <<21291, 58226, 30962, 50801>>,
       <<24988, 59942, 16078, 51751>>, <<49671, 8640, 47303, 53638>>,
       <<60190, 52704, 32214, 60122>>, <<53624, 61038, 20351, 62845>>,
       <<28602, 29207, 26538, 1776>>, <<39078, 41672, 32197, 2659>>,
       <<3502, 48889, 38916, 4415>>, <<18203, 4892, 2869, 7025>>,
       <<32132, 8964, 30709, 10459>>, <<9363, 16583, 43899, 13002>>,
       <<48828, 5577, 48650, 15518>>, <<3404, 39952, 26564, 17181>>,
       <<17078, 52030, 54462, 19653>>, <<32298, 64613, 10652, 22911>>,
       <<64236, 15062, 28587, 24523>>, <<22551, 19015, 6540, 27716>>
    >>

H256 ==
    <<
       <<58983, 27145>>, <<44677, 47975>>, <<62322, 15470>>, <<62778, 42319>>,
       <<21119, 20750>>, <<26764, 39685>>, <<55723, 8067>>, <<52505, 23520>>
    >>

H384 ==
    <<
       <<40664, 49413, 40285, 52155>>, <<54535, 13948, 10538, 25242>>,
       <<56599, 12400, 346, 37209>>, <<22841, 63246, 60632, 5423>>,
       <<2865, 65472, 9831, 26419>>, <<5393, 26712, 19079, 36532>>,
       <<36775, 25849, 11789, 56076>>, <<20388, 48890, 18461, 18357>>
    >>

\* digest::SHA256
SHA256 ==
    [limbs |-> 2, K |-> K256, H0 |-> H256, output_len |-> 32,
     bigS0 |-> <<2, 13, 22>>, bigS1 |-> <<6, 11, 25>>,
     smallS0 |-> <<7, 18, 3>>, smallS1 |-> <<17, 19, 10>>]

\* digest::SHA384
SHA384 ==
    [limbs |-> 4, K |-> K512, H0 |-> H384, output_len |-> 48,
     bigS0 |-> <<28, 34, 39>>, bigS1 |-> <<14, 18, 41>>,
     smallS0 |-> <<1, 8, 7>>, smallS1 |-> <<19, 61, 6>>]

WordBytes(alg) == 2 * alg.limbs
BlockBytes(alg) == 16 * WordBytes(alg)

RECURSIVE Zeros(_)
Zeros(n) == IF n = 0 THEN <<>> ELSE <<0>> \o Zeros(n - 1)

\* n as `count` big-endian bytes
RECURSIVE BeBytes(_, _)
BeBytes(n, count) ==
    IF count = 0 THEN <<>>
    ELSE BeBytes(n \div 256, count - 1) \o <<n % 256>>

\* the message, 0x80, zeros up to a block boundary less the length field,
\* then the bit length big-endian in 2 words
Pad(alg, msg) ==
    LET lenField == 2 * WordBytes(alg)
        used     == (Len(msg) + 1 + lenField) % BlockBytes(alg)
        fill     == IF used = 0 THEN 0 ELSE BlockBytes(alg) - used
    IN  msg \o <<128>> \o Zeros(fill) \o BeBytes(8 * Len(msg), lenField)

\* big-endian bytes bs[from .. from + 2*limbs - 1] as a word
RECURSIVE WordFromBe(_, _, _)
WordFromBe(bs, from, limbs) ==
    IF limbs = 0 THEN <<>>
    ELSE <<256 * bs[from + 2 * limbs - 2] + bs[from + 2 * limbs - 1]>>
         \o WordFromBe(bs, from, limbs - 1)

\* a word as big-endian bytes
RECURSIVE WordToBe(_)
WordToBe(w) ==
    IF w = <<>> THEN <<>>
    ELSE WordToBe(Tail(w)) \o <<Head(w) \div 256, Head(w) % 256>>

Sigma(w, r) == XorW(XorW(RotR(w, r[1]), RotR(w, r[2])), RotR(w, r[3]))
SmallSigma(w, r) == XorW(XorW(RotR(w, r[1]), RotR(w, r[2])), ShR(w, r[3]))
Ch(x, y, z) == XorW(AndW(x, y), AndW(NotW(x), z))
Maj(x, y, z) == XorW(XorW(AndW(x, y), AndW(x, z)), AndW(y, z))

RECURSIVE FirstWords(_, _, _, _)
FirstWords(alg, bs, off, t) ==
    IF t = 16 THEN <<>>
    ELSE <<WordFromBe(bs, off + t * WordBytes(alg) + 1, alg.limbs)>>
         \o FirstWords(alg, bs, off, t + 1)

RECURSIVE Schedule(_, _)
Schedule(alg, W) ==
    IF Len(W) = Len(alg.K) THEN W
    ELSE LET t == Len(W) + 1
             w == AddW(AddW(SmallSigma(W[t - 2], alg.smallS1), W[t - 7]),
                       AddW(SmallSigma(W[t - 15], alg.smallS0), W[t - 16]))
         IN  Schedule(alg, Append(W, w))

Round(alg, st, k, w) ==
    LET t1 == AddW(AddW(AddW(st[8], Sigma(st[5], alg.bigS1)),
                        Ch(st[5], st[6], st[7])),
                   AddW(k, w))
        t2 == AddW(Sigma(st[1], alg.bigS0), Maj(st[1], st[2], st[3]))
    IN  <<AddW(t1, t2), st[1], st[2], st[3],
          AddW(st[4], t1), st[5], st[6], st[7]>>

RECURSIVE Rounds(_, _, _, _)
Rounds(alg, st, W, t) ==
    IF t > Len(alg.K) \/ Len(st) # 8 THEN st
    ELSE Rounds(alg, Round(alg, st, alg.K[t], W[t]), W, t + 1)

RECURSIVE AddState(_, _)
AddState(a, b) ==
    IF a = <<>> THEN <<>>
    ELSE <<AddW(Head(a), Head(b))>> \o AddState(Tail(a), Tail(b))

Compress(alg, H, bs, off) ==
    LET W == Schedule(alg, FirstWords(alg, bs, off, 0))
    IN  AddState(H, Rounds(alg, H, W, 1))

RECURSIVE Blocks(_, _, _, _)
Blocks(alg, H, bs, off) ==
    IF off >= Len(bs) THEN H
    ELSE Blocks(alg, Compress(alg, H, bs, off), bs, off + BlockBytes(alg))

RECURSIVE StateBytes(_)
StateBytes(H) ==
    IF H = <<>> THEN <<>> ELSE WordToBe(Head(H)) \o StateBytes(Tail(H))

\* digest::digest(alg, data).as_ref(): the first output_len bytes of the state
Digest(alg, data) ==
    SubSeq(StateBytes(Blocks(alg, alg.H0, Pad(alg, data), 0)), 1, alg.output_len)

(***************************************************************************)
(* Text.  A String is a sequence of one-character strings; as_bytes()      *)
(* gives its UTF-8 bytes, which for the ASCII texts of the model are the   *)
(* character codes 32..126.                                                *)
(***************************************************************************)
\* the printable ASCII characters in code order, from " " (32) to "~" (126);
\* the double quote (34), the apostrophe (39), the backslash (92) and the
\* backtick (96) are written by name
AsciiPrintable ==
    <<
      " ", "!", "QUOTE", "#", "$", "%", "&", "APOSTROPHE", "(", ")", "*", "+", ",", "-", ".", "/",
      "0", "1", "2", "3", "4", "5", "6", "7", "8", "9", ":", ";", "<", "=", ">", "?",
      "@", "A", "B", "C", "D", "E", "F", "G", "H", "I", "J", "K", "L", "M", "N", "O",
      "P", "Q", "R", "S", "T", "U", "V", "W", "X", "Y", "Z", "[", "BACKSLASH", "]", "^", "_",
      "BACKTICK", "a", "b", "c", "d", "e", "f", "g", "h", "i", "j", "k", "l", "m", "n", "o",
      "p", "q", "r", "s", "t", "u", "v", "w", "x", "y", "z", "{", "|", "}", "~"
    >>

CodeOf(c) == 31 + (CHOOSE i \in 1..Len(AsciiPrintable) : AsciiPrintable[i] = c)
CharOf(code) == AsciiPrintable[code - 31]

\* str::as_bytes
RECURSIVE AsBytes(_)
AsBytes(text) ==
    IF text = <<>> THEN <<>> ELSE <<CodeOf(Head(text))>> \o AsBytes(Tail(text))

IsUpper(c) == CodeOf(c) >= CodeOf("A") /\ CodeOf(c) <= CodeOf("Z")
IsLowerAlpha(c) == CodeOf(c) >= CodeOf("a") /\ CodeOf(c) <= CodeOf("z")
IsDigit(c) == CodeOf(c) >= CodeOf("0") /\ CodeOf(c) <= CodeOf("9")

ToLowerChar(c) == IF IsUpper(c) THEN CharOf(CodeOf(c) + (CodeOf("a") - CodeOf("A"))) ELSE c

RECURSIVE ToLower(_)
ToLower(text) ==
    IF text = <<>> THEN <<>> ELSE <<ToLowerChar(Head(text))>> \o ToLower(Tail(text))

HexDigits == <<"0", "1", "2", "3", "4", "5", "6", "7",
               "8", "9", "A", "B", "C", "D", "E", "F">>

\* the %XX form of one character
PercentEncodeChar(c) ==
    <<"%", HexDigits[(CodeOf(c) \div 16) + 1], HexDigits[(CodeOf(c) % 16) + 1]>>

\* PercentEncode encoding "%" as well: an existing %XX sequence is encoded again
RECURSIVE PercentEncodeAgain(_, _)
PercentEncodeAgain(text, set) ==
    IF text = <<>> THEN <<>>
    ELSE (IF Head(text) \in (set \cup {"%"})
          THEN PercentEncodeChar(Head(text)) ELSE <<Head(text)>>)
         \o PercentEncodeAgain(Tail(text), set)

\* every character of text in `set` replaced by its %XX form; "%" itself is
\* in none of the sets, so an existing %XX sequence is left as it is
RECURSIVE PercentEncode(_, _)
PercentEncode(text, set) ==
    IF text = <<>> THEN <<>>
    ELSE (IF Head(text) \in set THEN PercentEncodeChar(Head(text)) ELSE <<Head(text)>>)
         \o PercentEncode(Tail(text), set)

\* the least index i >= from with text[i] in set, Len(text) + 1 when none
RECURSIVE IndexOfAny(_, _, _)
IndexOfAny(text, set, from) ==
    IF from > Len(text) THEN Len(text) + 1
    ELSE IF text[from] \in set THEN from
    ELSE IndexOfAny(text, set, from + 1)

\* the decimal digits of a natural number, without leading zeros
RECURSIVE DecimalOfNat(_)
DecimalOfNat(n) ==
    IF n < 10 THEN <<CharOf(CodeOf("0") + n)>>
    ELSE DecimalOfNat(n \div 10) \o <<CharOf(CodeOf("0") + (n % 10))>>

(***************************************************************************)
(* Url::parse and Url::to_string.  The url crate is a dependency, not part *)
(* of this repository; the crate documentation (rules 1-7 and the table of *)
(* lib.rs) and the test_url_prereq_* tests state the behaviour this crate  *)
(* relies on.  The model covers http and https URLs of the form            *)
(* scheme://host[:port][/path][?query][#fragment] with an ASCII domain as  *)
(* host; UrlParse answers ok = FALSE for everything else.                  *)
(***************************************************************************)
SchemeHttp == <<"h", "t", "t", "p">>
SchemeHttps == <<"h", "t", "t", "p", "s">>

\* DefaultPort knowing the default of http only
DefaultPortHttpOnly(scheme) == 80

\* rule 4: the default port of a scheme
DefaultPort(scheme) == IF scheme = SchemeHttp THEN 80 ELSE 443

\* rule 7: the characters percent-encoded in each component
PathEncodeSet == {" ", "QUOTE", "<", ">", "BACKTICK", "{", "}"}
QueryEncodeSet == {" ", "QUOTE", "<", ">", "APOSTROPHE"}
FragmentEncodeSet == {" ", "QUOTE", "<", ">", "BACKTICK"}

\* leading and trailing spaces are stripped before parsing
RECURSIVE TrimLeft(_)
TrimLeft(text) ==
    IF text # <<>> /\ Head(text) = " " THEN TrimLeft(Tail(text)) ELSE text

RECURSIVE TrimRight(_)
TrimRight(text) ==
    IF text # <<>> /\ text[Len(text)] = " "
    THEN TrimRight(SubSeq(text, 1, Len(text) - 1))
    ELSE text

IsHostChar(c) == IsUpper(c) \/ IsLowerAlpha(c) \/ IsDigit(c) \/ c \in {"-", "."}

\* the value of a digit string, capped at 65536 (anything above a u16)
RECURSIVE PortValue(_, _)
PortValue(digits, acc) ==
    IF digits = <<>> THEN acc
    ELSE LET v == acc * 10 + (CodeOf(Head(digits)) - CodeOf("0"))
         IN  PortValue(Tail(digits), IF v > 65535 THEN 65536 ELSE v)

\* the segments of a path: the texts between its "/" separators
RECURSIVE SplitPath(_)
SplitPath(path) ==
    LET cut == IndexOfAny(path, {"/"}, 1)
    IN  IF cut > Len(path) THEN <<path>>
        ELSE <<SubSeq(path, 1, cut - 1)>> \o SplitPath(SubSeq(path, cut + 1, Len(path)))

Dot == <<".">>
EncodedDot == <<"%", "2", "e">>
IsSingleDot(seg) == ToLower(seg) \in {Dot, EncodedDot}
IsDoubleDot(seg) ==
    ToLower(seg) \in {Dot \o Dot, Dot \o EncodedDot, EncodedDot \o Dot,
                      EncodedDot \o EncodedDot}

DropLast(s) == IF s = <<>> THEN s ELSE SubSeq(s, 1, Len(s) - 1)

\* rule 5: "." segments are removed, ".." removes the segment before it (and
\* is dropped when there is none); a dot segment in last place leaves an
\* empty last segment.  Rule 7 for the segments kept.
RECURSIVE NormalizeSegments(_, _, _)
NormalizeSegments(segs, i, out) ==
    IF i > Len(segs) THEN out
    ELSE LET seg  == segs[i]
             atEnd == i = Len(segs)
             nxt  == IF IsDoubleDot(seg)
                     THEN (IF atEnd THEN Append(DropLast(out), <<>>) ELSE DropLast(out))
                     ELSE IF IsSingleDot(seg)
                     THEN (IF atEnd THEN Append(out, <<>>) ELSE out)
                     ELSE Append(out, PercentEncode(seg, PathEncodeSet))
         IN  NormalizeSegments(segs, i + 1, nxt)

RECURSIVE JoinPath(_)
JoinPath(segs) ==
    IF segs = <<>> THEN <<>> ELSE <<"/">> \o Head(segs) \o JoinPath(Tail(segs))

\* rules 5 and 6: the path as serialized; an empty path is the one empty
\* segment, serialized "/"
CanonicalPath(pathText) ==
    LET inner == IF pathText = <<>> THEN <<>> ELSE Tail(pathText)
    IN  JoinPath(NormalizeSegments(SplitPath(inner), 1, <<>>))

ParseError == [ok |-> FALSE, serialization |-> <<>>]

\* Url::parse(text): ok and the serialization that Url::to_string and
\* Url::as_str return
UrlParse(raw) ==
    LET text     == TrimRight(TrimLeft(raw))
        colon    == IndexOfAny(text, {":"}, 1)
        scheme   == ToLower(SubSeq(text, 1, colon - 1))
        authFrom == colon + 3
        authEnd  == IndexOfAny(text, {"/", "?", "#"}, authFrom)
        auth     == SubSeq(text, authFrom, authEnd - 1)
        portAt   == IndexOfAny(auth, {":"}, 1)
        host     == ToLower(SubSeq(auth, 1, portAt - 1))
        portText == SubSeq(auth, portAt + 1, Len(auth))
        port     == PortValue(portText, 0)
        pathEnd  == IndexOfAny(text, {"?", "#"}, authEnd)
        pathText == SubSeq(text, authEnd, pathEnd - 1)
        hasQuery == pathEnd <= Len(text) /\ text[pathEnd] = "?"
        queryEnd == IF hasQuery THEN IndexOfAny(text, {"#"}, pathEnd + 1) ELSE pathEnd
        query    == SubSeq(text, pathEnd + 1, queryEnd - 1)
        hasFrag  == queryEnd <= Len(text)
        fragment == SubSeq(text, queryEnd + 1, Len(text))
    IN  IF \/ colon > Len(text)
           \/ scheme \notin {SchemeHttp, SchemeHttps}
           \/ SubSeq(text, colon + 1, colon + 2) # <<"/", "/">>
           \/ host = <<>>
           \/ \E i \in 1..Len(host) : ~IsHostChar(host[i])
           \/ \E i \in 1..Len(portText) : ~IsDigit(portText[i])
           \/ port > 65535
        THEN ParseError
        ELSE [ok |-> TRUE,
              serialization |->
                  scheme \o <<":", "/", "/">> \o host
                  \o (IF portText = <<>> \/ port = DefaultPort(scheme)
                      THEN <<>> ELSE <<":">> \o DecimalOfNat(port))
                  \o CanonicalPath(pathText)
                  \o (IF hasQuery
                      THEN <<"?">> \o PercentEncode(query, QueryEncodeSet) ELSE <<>>)
                  \o (IF hasFrag
                      THEN <<"#">> \o PercentEncode(fragment, FragmentEncodeSet)
                      ELSE <<>>)]

(***************************************************************************)
(* The hash value types.  A UrlHash is four u64 words, a UrlShortHash two, *)
(* a UrlVeryShortHash one; a u64 is four 16-bit limbs, least significant   *)
(* first.                                                                  *)
(***************************************************************************)
\* no value yet: no text, array or hash is the empty tuple
None == <<>>
\* the outcome of an operation that panicked: no array, slice or hash is this
Panic == <<"panic">>

\* digest::SHA256_OUTPUT_LEN
SHA256_OUTPUT_LEN == 32

\* U64FromLeBytes reading the bytes in big-endian order (u64::from_be_bytes)
U64FromBeBytes(b) ==
    <<b[8] + 256 * b[7], b[6] + 256 * b[5], b[4] + 256 * b[3], b[2] + 256 * b[1]>>

\* u64::from_le_bytes on an array of 8 bytes
U64FromLeBytes(b) ==
    <<b[1] + 256 * b[2], b[3] + 256 * b[4], b[5] + 256 * b[6], b[7] + 256 * b[8]>>

\* the slice s[lo..hi] (0-based, hi excluded); Panic when out of range
Slice(s, lo, hi) ==
    IF lo <= hi /\ hi <= Len(s) THEN SubSeq(s, lo + 1, hi) ELSE Panic

\* slice.try_into().unwrap() into an array of n elements
TryIntoArray(slice, n) ==
    IF slice # Panic /\ Len(slice) = n THEN slice ELSE Panic

\* lines 189-196 of UrlHash::from: the assertion on the digest's length, then
\* the four words from the first 32 bytes
UrlHashFromDigest(bytes) ==
    IF Len(bytes) < SHA256_OUTPUT_LEN THEN Panic
    ELSE LET a0 == TryIntoArray(Slice(bytes, 0, 8), 8)
             a1 == TryIntoArray(Slice(bytes, 8, 16), 8)
             a2 == TryIntoArray(Slice(bytes, 16, 24), 8)
             a3 == TryIntoArray(Slice(bytes, 24, 32), 8)
         IN  IF Panic \in {a0, a1, a2, a3} THEN Panic
             ELSE <<U64FromLeBytes(a0), U64FromLeBytes(a1),
                    U64FromLeBytes(a2), U64FromLeBytes(a3)>>

\* UrlDigest with a digest of 28 bytes, as a 224-bit algorithm gives
UrlDigestShort(value) == SubSeq(Digest(SHA384, AsBytes(value.serialization)), 1, 28)

\* the digest computed by UrlHash::from: SHA384 over the Url's string
UrlDigest(value) == Digest(SHA384, AsBytes(value.serialization))

\* UrlHashFrom salting the digest with the number of calls made so far
UrlHashFromSalted(value) ==
    UrlHashFromDigest(Digest(SHA384, AsBytes(value.serialization) \o <<calls>>))

\* impl From<Url> for UrlHash
UrlHashFrom(value) == UrlHashFromDigest(UrlDigest(value))

\* UrlHashShort taking the slice one word late (self.0[1..3])
UrlHashShortLate(h) == TryIntoArray(Slice(h, 1, 3), 2)

\* UrlHash::short
UrlHashShort(h) == TryIntoArray(Slice(h, 0, 2), 2)

\* UrlHash::very_short
UrlHashVeryShort(h) == h[1]

\* UrlHashStartsWith comparing word 0 only
UrlHashStartsWithFirstWord(h, short_hash) == h[1] = short_hash[1]

\* UrlHash::starts_with
UrlHashStartsWith(h, short_hash) == h[1] = short_hash[1] /\ h[2] = short_hash[2]

\* UrlHashStartsWithJust comparing word 1 (self.0[1])
UrlHashStartsWithJustSecond(h, very_short_hash) == h[2] = very_short_hash

\* UrlHash::starts_with_just
UrlHashStartsWithJust(h, very_short_hash) == h[1] = very_short_hash

\* UrlShortHash::very_short
UrlShortHashVeryShort(s) == s[1]

\* UrlShortHash::starts_with
UrlShortHashStartsWith(s, very_short_hash) == s[1] = very_short_hash

(***************************************************************************)
(* Display.  "{}" of a u64 is its decimal digits, without leading zeros.   *)
(***************************************************************************)
U64Zero == <<0, 0, 0, 0>>

\* w divided by 10: long division over the limbs, most significant first
U64DivRem10(w) ==
    LET q4 == w[4] \div 10
        c3 == (w[4] % 10) * 65536 + w[3]
        q3 == c3 \div 10
        c2 == (c3 % 10) * 65536 + w[2]
        q2 == c2 \div 10
        c1 == (c2 % 10) * 65536 + w[1]
    IN  [quot |-> <<c1 \div 10, q2, q3, q4>>, rem |-> c1 % 10]

RECURSIVE FmtU64(_)
FmtU64(w) ==
    LET d == U64DivRem10(w)
    IN  IF d.quot = U64Zero THEN <<CharOf(CodeOf("0") + d.rem)>>
        ELSE FmtU64(d.quot) \o <<CharOf(CodeOf("0") + d.rem)>>

\* FmtUrlHash with the last two words exchanged
FmtUrlHashSwapped(h) ==
    FmtU64(h[1]) \o <<"-">> \o FmtU64(h[2]) \o <<"-">> \o FmtU64(h[4])
    \o <<"-">> \o FmtU64(h[3])

\* impl Display for UrlHash
FmtUrlHash(h) ==
    FmtU64(h[1]) \o <<"-">> \o FmtU64(h[2]) \o <<"-">> \o FmtU64(h[3])
    \o <<"-">> \o FmtU64(h[4])

\* impl Display for UrlShortHash
FmtUrlShortHash(s) == FmtU64(s[1]) \o <<"-">> \o FmtU64(s[2])

\* impl Display for UrlVeryShortHash
FmtUrlVeryShortHash(v) == FmtU64(v)

(***************************************************************************)
(* The URLs of the model.  Each entry is a URL text (base), the texts that *)
(* differ from it only by rules 1, 2, 4, 5 and 6 (same: letter case of the *)
(* scheme and host, an explicit default port, dot segments, an empty path) *)
(* and the texts that differ from it only in being percent-encoded already *)
(* (encoded).  The texts are those of the crate documentation's table and  *)
(* of the test_url_prereq_* tests, with a few more of the same kinds; the  *)
(* last entry is a text Url::parse rejects.                                *)
(***************************************************************************)
\* https://example.com/
Text01 ==
    <<"h", "t", "t", "p", "s", ":", "/", "/", "e", "x", "a", "m", "p", "l",
      "e", ".", "c", "o", "m", "/">>

\* hTTpS://example.com/
Text02 ==
    <<"h", "T", "T", "p", "S", ":", "/", "/", "e", "x", "a", "m", "p", "l",
      "e", ".", "c", "o", "m", "/">>

\* https://Example.COM/
Text03 ==
    <<"h", "t", "t", "p", "s", ":", "/", "/", "E", "x", "a", "m", "p", "l",
      "e", ".", "C", "O", "M", "/">>

\* https://example.com:443/
Text04 ==
    <<"h", "t", "t", "p", "s", ":", "/", "/", "e", "x", "a", "m", "p", "l",
      "e", ".", "c", "o", "m", ":", "4", "4", "3", "/">>

\* https://example.com
Text05 ==
    <<"h", "t", "t", "p", "s", ":", "/", "/", "e", "x", "a", "m", "p", "l",
      "e", ".", "c", "o", "m">>

\* HTTPS://EXAMPLE.COM:443
Text06 ==
    <<"H", "T", "T", "P", "S", ":", "/", "/", "E", "X", "A", "M", "P", "L",
      "E", ".", "C", "O", "M", ":", "4", "4", "3">>

\* http://example.com/
Text07 ==
    <<"h", "t", "t", "p", ":", "/", "/", "e", "x", "a", "m", "p", "l", "e",
      ".", "c", "o", "m", "/">>

\* http://example.com:80/
Text08 ==
    <<"h", "t", "t", "p", ":", "/", "/", "e", "x", "a", "m", "p", "l", "e",
      ".", "c", "o", "m", ":", "8", "0", "/">>

\* HTTP://example.com:80
Text09 ==
    <<"H", "T", "T", "P", ":", "/", "/", "e", "x", "a", "m", "p", "l", "e",
      ".", "c", "o", "m", ":", "8", "0">>

\* http://example.com/.
Text10 ==
    <<"h", "t", "t", "p", ":", "/", "/", "e", "x", "a", "m", "p", "l", "e",
      ".", "c", "o", "m", "/", ".">>

\* https://example.com/bar/baz.jpg
Text11 ==
    <<"h", "t", "t", "p", "s", ":", "/", "/", "e", "x", "a", "m", "p", "l",
      "e", ".", "c", "o", "m", "/", "b", "a", "r", "/", "b", "a", "z", ".",
      "j", "p", "g">>

\* https://example.com/foo/../bar/./baz.jpg
Text12 ==
    <<"h", "t", "t", "p", "s", ":", "/", "/", "e", "x", "a", "m", "p", "l",
      "e", ".", "c", "o", "m", "/", "f", "o", "o", "/", ".", ".", "/", "b",
      "a", "r", "/", ".", "/", "b", "a", "z", ".", "j", "p", "g">>

\* https://example.com/../bar/baz.jpg
Text13 ==
    <<"h", "t", "t", "p", "s", ":", "/", "/", "e", "x", "a", "m", "p", "l",
      "e", ".", "c", "o", "m", "/", ".", ".", "/", "b", "a", "r", "/", "b",
      "a", "z", ".", "j", "p", "g">>

\* https://EXAMPLE.com:443/bar/x/../baz.jpg
Text14 ==
    <<"h", "t", "t", "p", "s", ":", "/", "/", "E", "X", "A", "M", "P", "L",
      "E", ".", "c", "o", "m", ":", "4", "4", "3", "/", "b", "a", "r", "/",
      "x", "/", ".", ".", "/", "b", "a", "z", ".", "j", "p", "g">>

\* https://example.com/hello world
Text15 ==
    <<"h", "t", "t", "p", "s", ":", "/", "/", "e", "x", "a", "m", "p", "l",
      "e", ".", "c", "o", "m", "/", "h", "e", "l", "l", "o", " ", "w", "o",
      "r", "l", "d">>

\* HTTPS://example.com/hello world
Text16 ==
    <<"H", "T", "T", "P", "S", ":", "/", "/", "e", "x", "a", "m", "p", "l",
      "e", ".", "c", "o", "m", "/", "h", "e", "l", "l", "o", " ", "w", "o",
      "r", "l", "d">>

\* https://example.com/./hello world
Text17 ==
    <<"h", "t", "t", "p", "s", ":", "/", "/", "e", "x", "a", "m", "p", "l",
      "e", ".", "c", "o", "m", "/", ".", "/", "h", "e", "l", "l", "o", " ",
      "w", "o", "r", "l", "d">>

\* https://example.com/hello%20world
Text18 ==
    <<"h", "t", "t", "p", "s", ":", "/", "/", "e", "x", "a", "m", "p", "l",
      "e", ".", "c", "o", "m", "/", "h", "e", "l", "l", "o", "%", "2", "0",
      "w", "o", "r", "l", "d">>

\* https://example.com/?q=hello world#to world
Text19 ==
    <<"h", "t", "t", "p", "s", ":", "/", "/", "e", "x", "a", "m", "p", "l",
      "e", ".", "c", "o", "m", "/", "?", "q", "=", "h", "e", "l", "l", "o",
      " ", "w", "o", "r", "l", "d", "#", "t", "o", " ", "w", "o", "r", "l",
      "d">>

\* https://example.com?q=hello world#to world
Text20 ==
    <<"h", "t", "t", "p", "s", ":", "/", "/", "e", "x", "a", "m", "p", "l",
      "e", ".", "c", "o", "m", "?", "q", "=", "h", "e", "l", "l", "o", " ",
      "w", "o", "r", "l", "d", "#", "t", "o", " ", "w", "o", "r", "l", "d">>

\* https://example.com/?q=hello%20world#to%20world
Text21 ==
    <<"h", "t", "t", "p", "s", ":", "/", "/", "e", "x", "a", "m", "p", "l",
      "e", ".", "c", "o", "m", "/", "?", "q", "=", "h", "e", "l", "l", "o",
      "%", "2", "0", "w", "o", "r", "l", "d", "#", "t", "o", "%", "2", "0",
      "w", "o", "r", "l", "d">>

\* http://example.com:8080/a/
Text22 ==
    <<"h", "t", "t", "p", ":", "/", "/", "e", "x", "a", "m", "p", "l", "e",
      ".", "c", "o", "m", ":", "8", "0", "8", "0", "/", "a", "/">>

\* http://EXAMPLE.com:8080/a/b/..
Text23 ==
    <<"h", "t", "t", "p", ":", "/", "/", "E", "X", "A", "M", "P", "L", "E",
      ".", "c", "o", "m", ":", "8", "0", "8", "0", "/", "a", "/", "b", "/",
      ".", ".">>

\* example.com/
Text24 ==
    <<"e", "x", "a", "m", "p", "l", "e", ".", "c", "o", "m", "/">>

UrlClasses ==
    <<
      [base |-> Text01, same |-> {Text02, Text03, Text04, Text05, Text06}, encoded |-> {}],
      [base |-> Text07, same |-> {Text08, Text09, Text10}, encoded |-> {}],
      [base |-> Text11, same |-> {Text12, Text13, Text14}, encoded |-> {}],
      [base |-> Text15, same |-> {Text16, Text17}, encoded |-> {Text18}],
      [base |-> Text19, same |-> {Text20}, encoded |-> {Text21}],
      [base |-> Text22, same |-> {Text23}, encoded |-> {}],
      [base |-> Text24, same |-> {}, encoded |-> {}]
    >>

ClassTexts(c) == {UrlClasses[c].base} \cup UrlClasses[c].same \cup UrlClasses[c].encoded

(***************************************************************************)
(* The digests of the value-level specification: four 8-byte groups, each  *)
(* drawn from a few byte patterns, followed by the bytes beyond index 31    *)
(* that a digest longer than 32 bytes carries.                           *)
(***************************************************************************)
\* the bytes a digest may carry beyond its first 32 (SHA-384 carries 16)
MaxExtraBytes == 16

GroupCount == <<1, 2, 3, 4, 5, 6, 7, 8>>     \* 0x0807060504030201
GroupZero  == <<0, 0, 0, 0, 0, 0, 0, 0>>     \* 0
GroupOnes  == <<255, 255, 255, 255, 255, 255, 255, 255>>   \* u64::MAX
GroupTop   == <<0, 0, 0, 0, 0, 0, 0, 128>>   \* 2^63

RECURSIVE ExtraBytes(_)
ExtraBytes(n) == IF n = 0 THEN <<>> ELSE ExtraBytes(n - 1) \o <<(37 * n) % 256>>

DigestInputs ==
    { g0 \o g1 \o g2 \o g3 \o ExtraBytes(n) :
        g0 \in {GroupCount, GroupZero, GroupOnes},
        g1 \in {GroupCount, GroupZero, GroupTop},
        g2 \in {GroupCount, GroupOnes},
        g3 \in {GroupZero, GroupTop},
        n \in {0, MaxExtraBytes} }

\* the short and very-short hashes handed to the prefix tests: those of every
\* digest of the model, related to the receiver or not
ShortArgs == { <<U64FromLeBytes(g0), U64FromLeBytes(g1)>> :
                 g0 \in {GroupCount, GroupZero, GroupOnes},
                 g1 \in {GroupCount, GroupZero, GroupTop} }
VeryShortArgs == { U64FromLeBytes(g0) : g0 \in {GroupCount, GroupZero, GroupOnes} }

(***************************************************************************)
(* The programs.  Two of them are the crate's tests, run on one of the     *)
(* URLs of the model:                                                      *)
(*   "repeatedly"  test_hash_url_repeatedly: parse and hash the URL, then  *)
(*                 parse and hash it again and compare, MaxCalls times in  *)
(*                 all (the test's 1000); the later rounds take any text   *)
(*                 of the URL's entry;                                     *)
(*   "prefixes"    test_hash_prefixes: parse, hash, short(), very_short()  *)
(*                 and the three prefix assertions.                        *)
(* The third, "values", applies the operations of the three types to the   *)
(* UrlHash of an arbitrary digest, with arbitrary arguments.               *)
(***************************************************************************)
\* the calls of UrlHash::from in one run of test_hash_url_repeatedly
MaxCalls == 3

NoUrl == ParseError
NoFirst == [input |-> None, url |-> NoUrl, hash |-> None]
NoOp == [op |-> "none", arg |-> None, result |-> None]

vars == <<test, class, pc, input, url, first, hash, calls, short, very_short,
          last, digest, panicked>>

Init ==
    /\ test \in {"repeatedly", "prefixes"}
    /\ class \in 1..Len(UrlClasses)
    /\ pc = "parse"
    /\ input = None
    /\ url = NoUrl
    /\ first = NoFirst
    /\ hash = None
    /\ calls = 0
    /\ short = None
    /\ very_short = None
    /\ last = NoOp
    /\ digest = None
    /\ panicked = FALSE

\* Url::parse(text).unwrap(): the first parse of test_hash_url_repeatedly is of
\* the entry's base text
Parse(t) ==
    /\ pc = "parse"
    /\ t \in (IF test = "repeatedly" /\ first = NoFirst
              THEN {UrlClasses[class].base} ELSE ClassTexts(class))
    /\ input' = t
    /\ url' = UrlParse(t)
    /\ pc' = IF url'.ok THEN "from" ELSE "rejected"
    /\ UNCHANGED <<test, class, first, hash, calls, short, very_short, last,
                   digest, panicked>>

\* UrlHash::from(url)
From ==
    /\ pc = "from"
    /\ \E h \in {UrlHashFrom(url)} :
           IF h = Panic
           THEN /\ panicked' = TRUE
                /\ pc' = "panicked"
                /\ UNCHANGED <<hash, first, calls>>
           ELSE /\ hash' = h
                /\ first' = IF first = NoFirst
                            THEN [input |-> input, url |-> url, hash |-> h]
                            ELSE first
                /\ calls' = calls + 1
                /\ pc' = IF test = "prefixes" THEN "short"
                         ELSE IF first = NoFirst THEN "loop" ELSE "assert_eq"
                /\ UNCHANGED panicked
    /\ UNCHANGED <<test, class, input, url, short, very_short, last, digest>>

\* for _ in 1..1000
Loop ==
    /\ pc = "loop"
    /\ pc' = IF calls < MaxCalls THEN "parse" ELSE "done"
    /\ UNCHANGED <<test, class, input, url, first, hash, calls, short,
                   very_short, last, digest, panicked>>

\* assert_eq!(again, first)
AssertEq ==
    /\ pc = "assert_eq"
    /\ IF hash = first.hash
       THEN pc' = "loop" /\ UNCHANGED panicked
       ELSE pc' = "panicked" /\ panicked' = TRUE
    /\ UNCHANGED <<test, class, input, url, first, hash, calls, short,
                   very_short, last, digest>>

\* println!("{}", hash); let short = hash.short(); println!("{}", short);
\* assert!(hash.starts_with(&short))
Short ==
    /\ pc = "short"
    /\ LET s == UrlHashShort(hash)
       IN  IF s = Panic
           THEN /\ panicked' = TRUE
                /\ pc' = "panicked"
                /\ last' = [op |-> "fmt_hash", arg |-> None,
                            result |-> FmtUrlHash(hash)]
                /\ UNCHANGED short
           ELSE /\ short' = s
                /\ last' = [op |-> "fmt_short", arg |-> None,
                            result |-> FmtUrlShortHash(s)]
                /\ IF UrlHashStartsWith(hash, s)
                   THEN pc' = "very_short" /\ UNCHANGED panicked
                   ELSE pc' = "panicked" /\ panicked' = TRUE
    /\ UNCHANGED <<test, class, input, url, first, hash, calls, very_short,
                   digest>>

\* let very_short = hash.very_short(); println!("{}", very_short);
\* assert!(short.starts_with(&very_short));
\* assert!(hash.starts_with_just(&very_short))
VeryShort ==
    /\ pc = "very_short"
    /\ very_short' = UrlHashVeryShort(hash)
    /\ last' = [op |-> "fmt_very_short", arg |-> None,
                result |-> FmtUrlVeryShortHash(very_short')]
    /\ IF /\ UrlShortHashStartsWith(short, very_short')
          /\ UrlHashStartsWithJust(hash, very_short')
       THEN pc' = "done" /\ UNCHANGED panicked
       ELSE pc' = "panicked" /\ panicked' = TRUE
    /\ UNCHANGED <<test, class, input, url, first, hash, calls, short, digest>>

Next == (\E t \in ClassTexts(class) : Parse(t)) \/ From \/ Loop \/ AssertEq
        \/ Short \/ VeryShort

Spec == Init /\ [][Next]_vars

(***************************************************************************)
(* The value-level specification: the operations on the UrlHash of any     *)
(* digest.                                                                 *)
(***************************************************************************)
InitValues ==
    /\ test = "values"
    /\ class = 0
    /\ pc = "values"
    /\ input = None
    /\ url = NoUrl
    /\ first = NoFirst
    /\ hash = None
    /\ calls = 0
    /\ short = None
    /\ very_short = None
    /\ last = NoOp
    /\ digest \in DigestInputs
    /\ panicked = FALSE

Unused == <<test, class, pc, input, url, first, calls, digest>>

\* UrlHash::from, from the digest on (lines 189-196)
FromDigest ==
    /\ test = "values"
    /\ hash = None
    /\ ~panicked
    /\ LET h == UrlHashFromDigest(digest)
       IN  IF h = Panic
           THEN panicked' = TRUE /\ UNCHANGED hash
           ELSE hash' = h /\ UNCHANGED panicked
    /\ UNCHANGED <<short, very_short, last>>
    /\ UNCHANGED Unused

\* hash.short()
TakeShort ==
    /\ test = "values"
    /\ hash # None
    /\ LET s == UrlHashShort(hash)
       IN  IF s = Panic
           THEN panicked' = TRUE /\ UNCHANGED short
           ELSE short' = s /\ UNCHANGED panicked
    /\ UNCHANGED <<hash, very_short, last>>
    /\ UNCHANGED Unused

\* hash.very_short()
TakeVeryShort ==
    /\ test = "values"
    /\ hash # None
    /\ very_short' = UrlHashVeryShort(hash)
    /\ UNCHANGED <<hash, short, last, panicked>>
    /\ UNCHANGED Unused

\* short.very_short()
ShortTakeVeryShort ==
    /\ test = "values"
    /\ short # None
    /\ last' = [op |-> "short.very_short", arg |-> None,
                result |-> UrlShortHashVeryShort(short)]
    /\ UNCHANGED <<hash, short, very_short, panicked>>
    /\ UNCHANGED Unused

\* hash.starts_with(&s)
StartsWith(s) ==
    /\ test = "values"
    /\ hash # None
    /\ last' = [op |-> "starts_with", arg |-> s,
                result |-> UrlHashStartsWith(hash, s)]
    /\ UNCHANGED <<hash, short, very_short, panicked>>
    /\ UNCHANGED Unused

\* hash.starts_with_just(&v)
StartsWithJust(v) ==
    /\ test = "values"
    /\ hash # None
    /\ last' = [op |-> "starts_with_just", arg |-> v,
                result |-> UrlHashStartsWithJust(hash, v)]
    /\ UNCHANGED <<hash, short, very_short, panicked>>
    /\ UNCHANGED Unused

\* short.starts_with(&v)
ShortStartsWith(v) ==
    /\ test = "values"
    /\ short # None
    /\ last' = [op |-> "short.starts_with", arg |-> v,
                result |-> UrlShortHashStartsWith(short, v)]
    /\ UNCHANGED <<hash, short, very_short, panicked>>
    /\ UNCHANGED Unused

\* format!("{}", hash)
DisplayHash ==
    /\ test = "values"
    /\ hash # None
    /\ last' = [op |-> "fmt_hash", arg |-> None, result |-> FmtUrlHash(hash)]
    /\ UNCHANGED <<hash, short, very_short, panicked>>
    /\ UNCHANGED Unused

\* format!("{}", short)
DisplayShort ==
    /\ test = "values"
    /\ short # None
    /\ last' = [op |-> "fmt_short", arg |-> None,
                result |-> FmtUrlShortHash(short)]
    /\ UNCHANGED <<hash, short, very_short, panicked>>
    /\ UNCHANGED Unused

\* format!("{}", very_short)
DisplayVeryShort ==
    /\ test = "values"
    /\ very_short # None
    /\ last' = [op |-> "fmt_very_short", arg |-> None,
                result |-> FmtUrlVeryShortHash(very_short)]
    /\ UNCHANGED <<hash, short, very_short, panicked>>
    /\ UNCHANGED Unused

NextValues ==
    \/ FromDigest
    \/ TakeShort
    \/ TakeVeryShort
    \/ ShortTakeVeryShort
    \/ \E s \in ShortArgs : StartsWith(s)
    \/ \E v \in VeryShortArgs : StartsWithJust(v)
    \/ \E v \in VeryShortArgs : ShortStartsWith(v)
    \/ DisplayHash
    \/ DisplayShort
    \/ DisplayVeryShort

SpecValues == InitValues /\ [][NextValues]_vars

(***************************************************************************)
(* Properties.                                                             *)
(***************************************************************************)
\* the positions at which hash is the UrlHash of the Url last parsed
HashIsOfUrl == pc \in {"loop", "assert_eq", "short", "very_short", "done"}

IsU64(w) == Len(w) = 4 /\ \A j \in 1..4 : w[j] \in 0..65535

\* byte k (0 the least significant) of a u64: (w / 256^k) mod 256
ByteOfU64(w, k) == (w[(k \div 2) + 1] \div Pow2(8 * (k % 2))) % 256

\* the 32 bytes of a UrlHash: u64::to_le_bytes of each word, in order
RECURSIVE HashToLeBytes(_)
HashToLeBytes(h) ==
    IF h = <<>> THEN <<>>
    ELSE <<ByteOfU64(Head(h), 0), ByteOfU64(Head(h), 1), ByteOfU64(Head(h), 2),
           ByteOfU64(Head(h), 3), ByteOfU64(Head(h), 4), ByteOfU64(Head(h), 5),
           ByteOfU64(Head(h), 6), ByteOfU64(Head(h), 7)>> \o HashToLeBytes(Tail(h))

\* the fields of a text between its separators
RECURSIVE SplitOn(_, _)
SplitOn(text, sep) ==
    LET cut == IndexOfAny(text, {sep}, 1)
    IN  IF cut > Len(text) THEN <<text>>
        ELSE <<SubSeq(text, 1, cut - 1)>> \o SplitOn(SubSeq(text, cut + 1, Len(text)), sep)

\* an unsigned decimal integer: digits only, no sign, no leading zero
IsDecimal(f) ==
    /\ f # <<>>
    /\ \A i \in 1..Len(f) : IsDigit(f[i])
    /\ Len(f) > 1 => f[1] # "0"

\* 10 * w + d on a u64
U64MulAdd10(w, d) ==
    LET s1 == 10 * w[1] + d
        s2 == 10 * w[2] + (s1 \div 65536)
        s3 == 10 * w[3] + (s2 \div 65536)
        s4 == 10 * w[4] + (s3 \div 65536)
    IN  <<s1 % 65536, s2 % 65536, s3 % 65536, s4 % 65536>>

\* the u64 a decimal text denotes
RECURSIVE DecimalValue(_, _)
DecimalValue(f, acc) ==
    IF f = <<>> THEN acc
    ELSE DecimalValue(Tail(f), U64MulAdd10(acc, CodeOf(Head(f)) - CodeOf("0")))

\* the fields of a rendering are decimal integers denoting the given words
RendersWords(text, words) ==
    LET fields == SplitOn(text, "-")
    IN  /\ Len(fields) = Len(words)
        /\ \A i \in 1..Len(fields) :
              IsDecimal(fields[i]) /\ DecimalValue(fields[i], U64Zero) = words[i]

\* C1: for every UrlHash h, h.starts_with(h.short()),
\* h.short().starts_with(h.very_short()) and h.starts_with_just(h.very_short())
\* are true: the hashes derived from a hash are prefixes of it.
C1_PrefixHierarchy ==
    /\ short # None => UrlHashStartsWith(hash, short)
    /\ (short # None /\ very_short # None) => UrlShortHashStartsWith(short, very_short)
    /\ very_short # None => UrlHashStartsWithJust(hash, very_short)

C1_Witness ==
    /\ test = "values"
    /\ short # None
    /\ very_short # None
    /\ hash[1] # hash[2]
    /\ hash[1] # hash[3]

\* C2: the 32 bytes UrlHash::from packs into the four words are the SHA-256
\* digest of the canonical URL string's UTF-8 bytes.
C2_Sha256Digest ==
    (HashIsOfUrl /\ hash # None)
        => HashToLeBytes(hash) = Digest(SHA256, AsBytes(url.serialization))

C4_LittleEndianWords ==
    hash # None =>
        /\ Len(hash) = 4
        /\ \A i \in 0..3 :
              /\ IsU64(hash[i + 1])
              /\ \A k \in 0..7 : ByteOfU64(hash[i + 1], k) = digest[8 * i + k + 1]
        /\ hash = UrlHashFromDigest(SubSeq(digest, 1, 32))

C4_Witness ==
    /\ test = "values"
    /\ hash # None
    /\ Len(digest) > 32
    /\ SubSeq(digest, 1, 8) = GroupCount
    /\ SubSeq(digest, 25, 32) = GroupTop

\* C5: h.short() is the pair (word 0, word 1) of h, h.very_short() is word 0
\* of h, and h.short().very_short() equals h.very_short().
C5_Truncation ==
    /\ short # None => short = <<hash[1], hash[2]>>
    /\ very_short # None => very_short = hash[1]
    /\ last.op = "short.very_short" =>
           /\ last.result = hash[1]
           /\ last.result = UrlHashVeryShort(hash)
           /\ very_short # None => last.result = very_short

C5_Witness ==
    /\ last.op = "short.very_short"
    /\ very_short # None
    /\ hash[1] # hash[2]
    /\ hash[2] # hash[3]

\* C6: starts_with(s) is true exactly when both words of s equal words 0 and
\* 1 of the hash, whatever s is; starts_with_just(v) and the short hash's
\* starts_with(v) are true exactly when v equals word 0 of the receiver.
C6_PrefixTestsExact ==
    /\ last.op = "starts_with" =>
           (last.result <=> (last.arg[1] = hash[1] /\ last.arg[2] = hash[2]))
    /\ last.op = "starts_with_just" => (last.result <=> (last.arg = hash[1]))
    /\ last.op = "short.starts_with" => (last.result <=> (last.arg = short[1]))

\* a short hash that matches on word 0 alone is no prefix
C6_Witness ==
    /\ last.op = "starts_with"
    /\ last.arg[1] = hash[1]
    /\ last.arg[2] # hash[2]
    /\ last.result = FALSE

\* C7: a URL text that differs from another only in the letter case of the
\* scheme or host, in an explicit default port, in dot segments or in an
\* empty path has the same canonical string and the same UrlHash.
C7_EquivalentUrlsHashEqual ==
    (/\ first # NoFirst
     /\ url.ok
     /\ {input, first.input} \subseteq ({UrlClasses[class].base} \cup UrlClasses[class].same))
        => /\ url.serialization = first.url.serialization
           /\ HashIsOfUrl => hash = first.hash

C7_Witness ==
    /\ pc = "assert_eq"
    /\ input \in UrlClasses[class].same
    /\ input # first.input
    /\ hash # None

\* C8: canonicalizing a canonical string returns it unchanged; an existing
\* %XX sequence is not encoded again, so a URL given with a raw space and the
\* same URL given percent-encoded have one canonical string and one UrlHash.
C8_Idempotent ==
    /\ url.ok => UrlParse(url.serialization) = url
    /\ (/\ first # NoFirst
        /\ url.ok
        /\ input \in UrlClasses[class].encoded)
          => /\ url.serialization = first.url.serialization
             /\ url.serialization = input
             /\ HashIsOfUrl => hash = first.hash

C8_Witness ==
    /\ pc = "assert_eq"
    /\ input \in UrlClasses[class].encoded
    /\ first.input = UrlClasses[class].base
    /\ \E i \in 1..Len(first.input) : first.input[i] = " "
    /\ hash # None

\* C9: a UrlHash renders as its four words as unsigned decimal integers joined
\* by "-", a UrlShortHash as its two words, a UrlVeryShortHash as its word;
\* the rendering of h.short() is the first two fields of the rendering of h
\* and that of h.very_short() its first field.
C9_Display ==
    /\ last.op = "fmt_hash" => RendersWords(last.result, hash)
    /\ last.op = "fmt_short" =>
           /\ RendersWords(last.result, short)
           /\ SplitOn(last.result, "-") = SubSeq(SplitOn(FmtUrlHash(hash), "-"), 1, 2)
    /\ last.op = "fmt_very_short" =>
           /\ RendersWords(last.result, <<very_short>>)
           /\ SplitOn(last.result, "-") = SubSeq(SplitOn(FmtUrlHash(hash), "-"), 1, 1)

C9_Witness ==
    /\ test = "values"
    /\ last.op = "fmt_hash"
    /\ hash[1] = U64FromLeBytes(GroupOnes)
    /\ hash[2] = U64Zero
    /\ hash[3] = U64FromLeBytes(GroupCount)

\* C10: every core operation is total: UrlHash::from of a parsed Url returns
\* a UrlHash (the assertion on the digest's length holds, each slice
\* conversion succeeds), and short, very_short and the prefix tests return a
\* value; nothing panics.
C10_Total ==
    /\ ~panicked
    /\ pc # "panicked"
    /\ HashIsOfUrl => (Len(hash) = 4 /\ \A i \in 1..4 : IsU64(hash[i]))
    /\ (test = "prefixes" /\ pc \in {"very_short", "done"}) =>
           (Len(short) = 2 /\ IsU64(short[1]) /\ IsU64(short[2]))
    /\ (test = "prefixes" /\ pc = "done") => IsU64(very_short)

C10_Witness ==
    /\ test = "prefixes"
    /\ pc = "done"
    /\ very_short # None
====
